---- MODULE Spec2Model ----
(***************************************************************************)
(* The tool-calling chat client of src/client.py: discovery of the MCP     *)
(* tools, the interactive loop reading user input, the bounded             *)
(* request/tool-call loop of one user turn, and the pure helpers it uses   *)
(* (schema translation, result normalisation, argument coercion).          *)
(*                                                                         *)
(* Text is a TLA+ string.  A Python value is a tagged record:              *)
(*   [t |-> "none"], [t |-> "absent"] (a key or attribute that is missing),*)
(*   [t |-> "str", s |-> ..], [t |-> "int", n |-> ..], [t |-> "bool", ..], *)
(*   [t |-> "list", elems |-> <<..>>], [t |-> "dict", pairs |-> <<..>>]    *)
(* where pairs is the insertion-ordered sequence of <<key, value>>.        *)
(***************************************************************************)
EXTENDS Integers, Sequences, FiniteSets, TLC

VARIABLES
    pc,           \* where main() is suspended
    endpoint,     \* environment: the behaviour of the model endpoint and tool server
    ollama_tools, \* the translated tool schema list
    messages,     \* Conversation State
    user_text,    \* the last line read, stripped
    loop_idx,     \* index of the current iteration of the tool-calling loop
    tool_calls,   \* the tool calls of the response being processed
    tc_idx,       \* position in tool_calls of the call being executed (1-based)
    inflight,     \* the network calls issued and not yet returned
    elapsed,      \* time the outstanding call has been waited for
    stdout,       \* the lines written to standard output
    error,        \* the exception that propagated out of main(), if any
    turns,        \* user turns started so far
    turn_requests,   \* Chat Transport requests issued in the current turn
    requests_sent,   \* Chat Transport requests issued in the session
    tools_invoked,   \* tool invocations issued in the session
    discoveries,     \* list_tools calls made in the session
    turn_responses,  \* per response received in the current turn: did it carry tool calls
    batch_base,      \* Len(messages) when the current batch started
    batch_results,   \* the results returned to the invocations of the current batch
    resp,            \* the last response ollama_chat returned
    unit             \* a helper applied on its own: its input and its outcome

vars == <<pc, endpoint, ollama_tools, messages, user_text, loop_idx, tool_calls,
          tc_idx, inflight, elapsed, stdout, error, turns, turn_requests,
          requests_sent, tools_invoked, discoveries, turn_responses, batch_base,
          batch_results, resp, unit>>

----------------------------------------------------------------------------
(* Python values *)

PyNone == [t |-> "none"]
Absent == [t |-> "absent"]
PyStr(s) == [t |-> "str", s |-> s]
PyInt(n) == [t |-> "int", n |-> n]
PyBool(b) == [t |-> "bool", b |-> b]
PyList(elems) == [t |-> "list", elems |-> elems]
PyDict(pairs) == [t |-> "dict", pairs |-> pairs]
EmptyDict == PyDict(<<>>)

\* d[k] = v on an insertion-ordered dict: an existing key keeps its position
DictSet(pairs, k, v) ==
    IF \E i \in 1..Len(pairs) : pairs[i][1] = k
    THEN [i \in 1..Len(pairs) |-> IF pairs[i][1] = k THEN <<k, v>> ELSE pairs[i]]
    ELSE Append(pairs, <<k, v>>)

HasKey(d, k) == \E i \in 1..Len(d.pairs) : d.pairs[i][1] = k

\* d.get(k): the value under k, None when the key is missing
DictGet(d, k) ==
    IF HasKey(d, k)
    THEN d.pairs[CHOOSE i \in 1..Len(d.pairs) : d.pairs[i][1] = k][2]
    ELSE PyNone

\* Python truthiness
Truthy(v) ==
    CASE v.t = "none" -> FALSE
      [] v.t = "absent" -> FALSE
      [] v.t = "str" -> v.s # ""
      [] v.t = "int" -> v.n # 0
      [] v.t = "bool" -> v.b
      [] v.t = "list" -> v.elems # <<>>
      [] v.t = "dict" -> v.pairs # <<>>
      [] OTHER -> TRUE

----------------------------------------------------------------------------
(* Text: str.strip(), str.lower() *)

Ch(s, i) == IF 1 <= i /\ i <= Len(s) THEN SubSeq(s, i, i) ELSE ""

Whitespace == {" ", "\t", "\n", "\r"}

RECURSIVE LStrip(_)
LStrip(s) == IF s # "" /\ Ch(s, 1) \in Whitespace THEN LStrip(Tail(s)) ELSE s

RECURSIVE RStrip(_)
RStrip(s) ==
    IF s # "" /\ Ch(s, Len(s)) \in Whitespace
    THEN RStrip(SubSeq(s, 1, Len(s) - 1))
    ELSE s

Strip(s) == RStrip(LStrip(s))

UpperCase == "ABCDEFGHIJKLMNOPQRSTUVWXYZ"
LowerCase == "abcdefghijklmnopqrstuvwxyz"

LowerChar(c) ==
    IF \E i \in 1..Len(UpperCase) : Ch(UpperCase, i) = c
    THEN Ch(LowerCase, CHOOSE i \in 1..Len(UpperCase) : Ch(UpperCase, i) = c)
    ELSE c

RECURSIVE Lower(_)
Lower(s) == IF s = "" THEN "" ELSE LowerChar(Ch(s, 1)) \o Lower(Tail(s))

----------------------------------------------------------------------------
(* json.loads and json.dumps on the JSON subset without escapes, fractions *)
(* and exponents                                                          *)

Digits == "0123456789"
IsDigit(c) == \E i \in 1..Len(Digits) : Ch(Digits, i) = c
DigitVal(c) == (CHOOSE i \in 1..Len(Digits) : Ch(Digits, i) = c) - 1

ParseFail == [ok |-> FALSE, v |-> PyNone, i |-> 0]
ParseOk(v, i) == [ok |-> TRUE, v |-> v, i |-> i]

\* the literal lit stands at position i of s
LitAt(s, i, lit) == i + Len(lit) - 1 <= Len(s) /\ SubSeq(s, i, i + Len(lit) - 1) = lit

RECURSIVE SkipWs(_, _)
SkipWs(s, i) == IF Ch(s, i) \in Whitespace THEN SkipWs(s, i + 1) ELSE i

\* the index of the quote closing the string opened before position i, 0 if none
RECURSIVE CloseQuote(_, _)
CloseQuote(s, i) ==
    IF i > Len(s) \/ Ch(s, i) = "\\" THEN 0
    ELSE IF Ch(s, i) = "\"" THEN i
    ELSE CloseQuote(s, i + 1)

\* s[i] is the opening quote
ParseString(s, i) ==
    LET j == CloseQuote(s, i + 1) IN
    IF j = 0 THEN ParseFail ELSE ParseOk(PyStr(SubSeq(s, i + 1, j - 1)), j + 1)

RECURSIVE DigitsEnd(_, _)
DigitsEnd(s, i) == IF IsDigit(Ch(s, i)) THEN DigitsEnd(s, i + 1) ELSE i

RECURSIVE NatOf(_)
NatOf(ds) ==
    IF ds = "" THEN 0
    ELSE 10 * NatOf(SubSeq(ds, 1, Len(ds) - 1)) + DigitVal(Ch(ds, Len(ds)))

ParseNumber(s, i) ==
    LET neg == Ch(s, i) = "-"
        b == IF neg THEN i + 1 ELSE i
        e == DigitsEnd(s, b)
    IN  IF e = b \/ (Ch(s, b) = "0" /\ e > b + 1) THEN ParseFail
        ELSE LET n == NatOf(SubSeq(s, b, e - 1))
             IN  ParseOk(PyInt(IF neg THEN 0 - n ELSE n), e)

RECURSIVE ParseValue(_, _)
RECURSIVE ParseMembers(_, _, _)
RECURSIVE ParseElems(_, _, _)

\* after "{" or ",": a "key": value pair at i, then "," or "}"
ParseMembers(s, i, acc) ==
    IF Ch(s, i) # "\"" THEN ParseFail
    ELSE LET k == ParseString(s, i) IN
         IF ~k.ok THEN ParseFail
         ELSE LET c == SkipWs(s, k.i) IN
              IF Ch(s, c) # ":" THEN ParseFail
              ELSE LET v == ParseValue(s, SkipWs(s, c + 1)) IN
                   IF ~v.ok THEN ParseFail
                   ELSE LET n == SkipWs(s, v.i)
                            acc2 == DictSet(acc, k.v.s, v.v)
                        IN  IF Ch(s, n) = "}" THEN ParseOk(PyDict(acc2), n + 1)
                            ELSE IF Ch(s, n) = ","
                                 THEN ParseMembers(s, SkipWs(s, n + 1), acc2)
                                 ELSE ParseFail

\* after "[" or ",": a value at i, then "," or "]"
ParseElems(s, i, acc) ==
    LET v == ParseValue(s, i) IN
    IF ~v.ok THEN ParseFail
    ELSE LET n == SkipWs(s, v.i)
             acc2 == Append(acc, v.v)
         IN  IF Ch(s, n) = "]" THEN ParseOk(PyList(acc2), n + 1)
             ELSE IF Ch(s, n) = ","
                  THEN ParseElems(s, SkipWs(s, n + 1), acc2)
                  ELSE ParseFail

ParseValue(s, i) ==
    LET c == Ch(s, i) IN
    CASE c = "{" ->
            LET n == SkipWs(s, i + 1) IN
            IF Ch(s, n) = "}" THEN ParseOk(EmptyDict, n + 1)
            ELSE ParseMembers(s, n, <<>>)
      [] c = "[" ->
            LET n == SkipWs(s, i + 1) IN
            IF Ch(s, n) = "]" THEN ParseOk(PyList(<<>>), n + 1)
            ELSE ParseElems(s, n, <<>>)
      [] c = "\"" -> ParseString(s, i)
      [] c = "-" \/ IsDigit(c) -> ParseNumber(s, i)
      [] LitAt(s, i, "true") -> ParseOk(PyBool(TRUE), i + 4)
      [] LitAt(s, i, "false") -> ParseOk(PyBool(FALSE), i + 5)
      [] LitAt(s, i, "null") -> ParseOk(PyNone, i + 4)
      [] OTHER -> ParseFail

\* json.loads(s): ok = FALSE stands for json.JSONDecodeError
json_loads(s) ==
    LET r == ParseValue(s, SkipWs(s, 1)) IN
    IF r.ok /\ SkipWs(s, r.i) = Len(s) + 1 THEN [ok |-> TRUE, v |-> r.v]
    ELSE [ok |-> FALSE, v |-> PyNone]

RECURSIVE NatStr(_)
NatStr(n) ==
    IF n < 10 THEN Ch(Digits, n + 1)
    ELSE NatStr(n \div 10) \o Ch(Digits, (n % 10) + 1)

IntStr(n) == IF n < 0 THEN "-" \o NatStr(0 - n) ELSE NatStr(n)

RECURSIVE json_dumps(_)
RECURSIVE DumpsPairs(_)
RECURSIVE DumpsElems(_)

DumpsPairs(pairs) ==
    IF pairs = <<>> THEN ""
    ELSE "\"" \o pairs[1][1] \o "\": " \o json_dumps(pairs[1][2])
         \o (IF Len(pairs) > 1 THEN ", " ELSE "") \o DumpsPairs(Tail(pairs))

DumpsElems(elems) ==
    IF elems = <<>> THEN ""
    ELSE json_dumps(elems[1])
         \o (IF Len(elems) > 1 THEN ", " ELSE "") \o DumpsElems(Tail(elems))

\* json.dumps(v) with the default separators
json_dumps(v) ==
    CASE v.t = "none" -> "null"
      [] v.t = "bool" -> IF v.b THEN "true" ELSE "false"
      [] v.t = "int" -> IntStr(v.n)
      [] v.t = "str" -> "\"" \o v.s \o "\""
      [] v.t = "list" -> "[" \o DumpsElems(v.elems) \o "]"
      [] v.t = "dict" -> "{" \o DumpsPairs(v.pairs) \o "}"

----------------------------------------------------------------------------
(* str(v) of a Python value *)

RECURSIVE PyRepr(_)
RECURSIVE ReprPairs(_)
RECURSIVE ReprElems(_)

ReprPairs(pairs) ==
    IF pairs = <<>> THEN ""
    ELSE "'" \o pairs[1][1] \o "': " \o PyRepr(pairs[1][2])
         \o (IF Len(pairs) > 1 THEN ", " ELSE "") \o ReprPairs(Tail(pairs))

ReprElems(elems) ==
    IF elems = <<>> THEN ""
    ELSE PyRepr(elems[1])
         \o (IF Len(elems) > 1 THEN ", " ELSE "") \o ReprElems(Tail(elems))

\* repr(v): what str() shows of a value nested in a container
PyRepr(v) ==
    CASE v.t = "none" -> "None"
      [] v.t = "bool" -> IF v.b THEN "True" ELSE "False"
      [] v.t = "int" -> IntStr(v.n)
      [] v.t = "str" -> "'" \o v.s \o "'"
      [] v.t = "list" -> "[" \o ReprElems(v.elems) \o "]"
      [] v.t = "dict" -> "{" \o ReprPairs(v.pairs) \o "}"
      [] OTHER -> v.repr

PyStrOf(v) == IF v.t = "str" THEN v.s ELSE PyRepr(v)

----------------------------------------------------------------------------
(* Tool descriptors and _tool_to_ollama_schema *)

\* an attribute-bearing descriptor; a missing attribute is Absent
ToolObj(name, description, inputSchema) ==
    [t |-> "obj", name |-> name, description |-> description,
     inputSchema |-> inputSchema, input_schema |-> Absent, repr |-> "Tool()"]

\* getattr(o, a, None) for the attributes the client reads
GetAttr(o, a) ==
    IF o.t = "obj"
    THEN LET v == CASE a = "name" -> o.name
                    [] a = "description" -> o.description
                    [] a = "inputSchema" -> o.inputSchema
                    [] a = "input_schema" -> o.input_schema
         IN  IF v.t = "absent" THEN PyNone ELSE v
    ELSE IF o.t = "result"
    THEN LET v == CASE a = "data" -> o.data
                    [] a = "content" -> o.content
                    [] OTHER -> Absent
         IN  IF v.t = "absent" THEN PyNone ELSE v
    ELSE IF o.t = "part"
    THEN IF a = "text" /\ o.text.t # "absent" THEN o.text ELSE PyNone
    ELSE PyNone

\* x or y, where y is tool.get(key, default): only a mapping has .get
\* (raised = TRUE stands for the AttributeError of an object without .get)
OrGet(x, tool, key, default) ==
    IF Truthy(x.v) \/ x.raised THEN x
    ELSE IF tool.t # "dict" THEN [raised |-> TRUE, v |-> PyNone]
    ELSE [raised |-> FALSE, v |-> IF HasKey(tool, key) THEN DictGet(tool, key) ELSE default]

OrElse(x, default) == IF Truthy(x.v) \/ x.raised THEN x ELSE [raised |-> FALSE, v |-> default]

Val(v) == [raised |-> FALSE, v |-> v]

DefaultSchema ==
    PyDict(<< <<"type", PyStr("object")>>, <<"properties", EmptyDict>> >>)

_tool_to_ollama_schema(tool) ==
    LET name == OrGet(Val(GetAttr(tool, "name")), tool, "name", PyNone)
        description ==
            OrGet(Val(GetAttr(tool, "description")), tool, "description", PyStr(""))
        input_schema ==
            OrElse(OrGet(OrGet(OrElse(Val(GetAttr(tool, "inputSchema")),
                                      GetAttr(tool, "input_schema")),
                               tool, "inputSchema", PyNone),
                         tool, "input_schema", PyNone),
                   DefaultSchema)
    IN  IF name.raised \/ description.raised \/ input_schema.raised
        THEN [raised |-> TRUE, v |-> PyNone]
        ELSE Val(PyDict(<<
                <<"type", PyStr("function")>>,
                <<"function", PyDict(<< <<"name", name.v>>,
                                        <<"description", description.v>>,
                                        <<"parameters", input_schema.v>> >>)>> >>))

----------------------------------------------------------------------------
(* Tool results and _result_to_text *)

ToolResult(data, content, repr) ==
    [t |-> "result", data |-> data, content |-> content, repr |-> repr]

ContentPart(text, repr) == [t |-> "part", text |-> text, repr |-> repr]

\* "\n".join(parts)
RECURSIVE JoinLines(_)
JoinLines(parts) ==
    IF parts = <<>> THEN ""
    ELSE IF Len(parts) = 1 THEN parts[1]
    ELSE parts[1] \o "\n" \o JoinLines(Tail(parts))

\* raised = TRUE stands for the TypeError of str.join on a part text that is no str
_result_to_text(result) ==
    IF result.t = "none" THEN [raised |-> FALSE, text |-> ""]
    ELSE LET data == GetAttr(result, "data")
             content == GetAttr(result, "content")
         IN  IF data.t # "none" THEN [raised |-> FALSE, text |-> PyStrOf(data)]
             ELSE IF content.t = "list" /\ content.elems # <<>>
             THEN LET txt(part) == GetAttr(part, "text")
                      parts == [i \in 1..Len(content.elems) |->
                                   IF txt(content.elems[i]).t # "none"
                                   THEN txt(content.elems[i])
                                   ELSE PyStr(PyStrOf(content.elems[i]))]
                  IN  IF \E i \in 1..Len(parts) : parts[i].t # "str"
                      THEN [raised |-> TRUE, text |-> ""]
                      ELSE [raised |-> FALSE,
                            text |-> JoinLines([i \in 1..Len(parts) |-> parts[i].s])]
             ELSE [raised |-> FALSE, text |-> PyStrOf(result)]

----------------------------------------------------------------------------
(* Bounds of the model *)

\* user turns started in one session
MaxTurns == 2

\* steps a network call may be waited for before it returns
MaxLatency == 1

----------------------------------------------------------------------------
(* The environment: user input lines, tool listings, the model endpoint and *)
(* the tool server                                                         *)

InputLines == {"hi", "  hi ", "", "   ", "\t", "exit", "EXIT", " Quit ", "quit"}

ObjectSchema(prop) ==
    PyDict(<< <<"type", PyStr("object")>>,
              <<"properties", PyDict(<< <<prop, PyDict(<< <<"type", PyStr("string")>> >>)>> >>)>> >>)

ToolListings ==
    { << ToolObj(PyStr("current_date"), PyStr("Get the current date"),
                 ObjectSchema("tz")),
         ToolObj(PyStr("get_alerts"), PyStr("Get weather alerts for a US state"),
                 ObjectSchema("state")),
         PyDict(<< <<"name", PyStr("get_forecast")>>,
                   <<"description", PyStr("Get weather forecast for a location")>>,
                   <<"inputSchema", ObjectSchema("latitude")>> >>),
         PyDict(<< <<"name", PyStr("get_calendar_list")>> >>) >> }

ToolCall(id, name, arguments) ==
    [id |-> id, function |-> [name |-> name, arguments |-> arguments]]

ChatResponse(role, content, calls) ==
    [message |-> [role |-> role, content |-> content, tool_calls |-> calls]]

\* mappings a model may pass as arguments
SampleMappings ==
    { EmptyDict,
      PyDict(<< <<"state", PyStr("CA")>> >>),
      PyDict(<< <<"latitude", PyInt(38)>>, <<"longitude", PyInt(-122)>> >>),
      PyDict(<< <<"calendar_id", PyNone>>, <<"tags", PyList(<<PyStr("a"), PyBool(TRUE)>>)>> >>) }

\* strings that are not well-formed JSON
MalformedStrings == {"{bad", "", "{\"a\": 1,}", "{'state': 'CA'}", "{\"state\": CA}"}

\* strings that are well-formed JSON for something else than a mapping
NonMappingJson == {"[1, 2]", "7", "\"CA\"", "null", "true"}

\* arguments that are neither a string nor a mapping
NonStringNonMapping == {PyNone, PyInt(5), PyList(<<PyInt(1)>>), PyBool(TRUE)}

Batch1 == << ToolCall(PyStr("call_1"), "current_date", EmptyDict) >>

Batch2 ==
    << ToolCall(PyStr("a"), "get_alerts", PyStr("{\"state\":\"CA\"}")),
       ToolCall(PyStr("b"), "current_date", PyNone),
       ToolCall(PyStr("c"), "get_forecast", PyStr("{bad")) >>

Batch3 ==
    << ToolCall(PyNone, "get_forecast",
                PyDict(<< <<"latitude", PyInt(38)>>, <<"longitude", PyInt(-122)>> >>)),
       ToolCall(PyNone, "get_alerts", PyInt(5)),
       ToolCall(PyNone, "get_calendar_list", PyStr("[1, 2]")) >>

Batch4 ==
    << ToolCall(PyStr("x"), "current_date",
                PyStr(" { \"calendar_id\" : null , \"tags\" : [\"a\", true] } ")),
       ToolCall(PyStr("y"), "current_date", PyStr("{\"a\": 1,}")),
       ToolCall(PyStr("z"), "get_alerts", PyDict(<< <<"state", PyStr("CA")>> >>)) >>

Batch5 ==
    << ToolCall(PyStr("p"), "get_alerts",
                PyStr("{\"latitude\": 38, \"longitude\": -122}")),
       ToolCall(PyStr("q"), "get_forecast", PyList(<<PyInt(1)>>)),
       ToolCall(PyStr("r"), "get_forecast", PyStr("7")),
       ToolCall(PyStr("s"), "current_date", PyStr("")) >>

Batch6 ==
    << ToolCall(PyStr("k"), "get_calendar_list", PyBool(TRUE)),
       ToolCall(PyStr("l"), "get_alerts", PyStr("{'state': 'CA'}")),
       ToolCall(PyStr("m"), "get_alerts", PyStr("{\"state\": CA}")),
       ToolCall(PyStr("n"), "current_date", PyStr("{}")) >>

\* A model endpoint: the response it gives when it calls tools and the one it
\* gives when it answers; which of the two it gives to a request is free.
Endpoints ==
    { [tool_response |-> ChatResponse(PyStr("assistant"), PyStr(""), PyList(Batch1)),
       final_response |-> ChatResponse(PyStr("assistant"),
                                       PyStr("Today is January 26, 2026."), Absent)],
      [tool_response |-> ChatResponse(PyStr("assistant"), PyStr("Let me check."),
                                      PyList(Batch2)),
       final_response |-> ChatResponse(Absent, PyStr(""), PyList(<<>>))],
      [tool_response |-> ChatResponse(Absent, PyNone, PyList(Batch3)),
       final_response |-> ChatResponse(PyStr("assistant"), PyNone, PyNone)],
      [tool_response |-> ChatResponse(PyStr("user"), PyStr("Working on it."),
                                      PyList(Batch4)),
       final_response |-> ChatResponse(PyStr("system"), PyStr("Done."), PyList(<<>>))],
      [tool_response |-> ChatResponse(PyStr("assistant"), Absent, PyList(Batch5)),
       final_response |-> ChatResponse(PyStr("assistant"), PyStr("All set."), Absent)],
      [tool_response |-> ChatResponse(Absent, PyStr(""), PyList(Batch6)),
       final_response |-> ChatResponse(Absent, Absent, Absent)] }

\* The result call_tool returns: it echoes the invocation, in a shape that
\* depends on the tool.
ToolServer(name, args) ==
    LET echo == name \o "(" \o json_dumps(args) \o ")" IN
    CASE name = "current_date" ->
            ToolResult(PyStr(echo), PyList(<<ContentPart(PyStr(echo), "TextContent()")>>),
                       "CallToolResult()")
      [] name = "get_alerts" ->
            ToolResult(PyNone,
                       PyList(<<ContentPart(PyStr(echo), "TextContent()"),
                                ContentPart(Absent, "ImageContent(" \o echo \o ")")>>),
                       "CallToolResult()")
      [] name = "get_forecast" ->
            ToolResult(Absent, PyList(<<>>), "CallToolResult(" \o echo \o ")")
      [] OTHER -> PyNone

----------------------------------------------------------------------------
(* main(): the pieces of the loop body *)


\* variant: the hard stop is off by one
LoopLimitOffByOne == 10 + 1

\* range(10), the hard stop of the tool-calling loop
LoopLimit == 10

SystemMessage ==
    [role |-> "system",
     content |-> "Follow system instructions and use the provided tools to assist the user. ALWAYS CALL CURRENT DATE TOOL FIRST"]

UserMessage(text) == [role |-> "user", content |-> text]


\* variant: the tool message carries the id of no call
ToolMessageNoId(tc, tool_name, tool_text) ==
    [role |-> "tool", tool_call_id |-> PyNone, name |-> tool_name, content |-> tool_text]

ToolMessage(tc, tool_name, tool_text) ==
    [role |-> "tool", tool_call_id |-> tc.id, name |-> tool_name, content |-> tool_text]

LimitNotice == "\nAssistant> Tool loop limit reached; aborting this turn."
Placeholder == "\nAssistant> (no content)"
AssistantLine(content) == "\nAssistant> " \o content


\* variant: the sentinel is compared without lowering the input
IsSentinelCaseSensitive(text) == text \in {"exit", "quit"}

\* user_text.lower() in {"exit", "quit"}
IsSentinel(text) == Lower(text) \in {"exit", "quit"}


\* variant: blank input is not skipped
IsBlankNever(text) == FALSE

\* not user_text
IsBlank(text) == text = ""

\* msg.get("role", "assistant")
RoleOf(msg) == IF msg.role.t = "absent" THEN "assistant" ELSE PyStrOf(msg.role)

\* msg.get("content", "") or ""
ContentOf(msg) == IF Truthy(msg.content) THEN msg.content.s ELSE ""

\* msg.get("tool_calls") or []
ToolCallsOf(msg) == IF Truthy(msg.tool_calls) THEN msg.tool_calls.elems ELSE <<>>

\* variant: the text of a response is not stored
WithAssistantTextDropped(msgs, role, content) == msgs

\* if content: messages.append({"role": role, "content": content})
WithAssistantText(msgs, role, content) ==
    IF content # "" THEN Append(msgs, [role |-> role, content |-> content]) ELSE msgs


\* variant: the loop does not break on a response without tool calls
TurnDoneNever(calls) == FALSE

\* if not tool_calls: ... break
TurnDone(calls) == calls = <<>>

\* variant: the text that comes with tool calls is printed too
PrintedWithToolCallsEcho(content) ==
    IF content # "" THEN <<AssistantLine(content)>> ELSE <<>>

\* what is printed of the text of a response that carries tool calls: it is
\* appended to messages and only logged
PrintedWithToolCalls(content) == <<>>

\* variant: the text is printed even when it is empty
FinalLineNoPlaceholder(content) == AssistantLine(content)

\* what is printed when the turn is done
FinalLine(content) == IF content # "" THEN AssistantLine(content) ELSE Placeholder


\* variant: a string that does not decode is dropped instead of wrapped
CoerceArgsDropRaw(args) ==
    LET decoded ==
            IF args.t = "str"
            THEN LET r == json_loads(args.s) IN IF r.ok THEN r.v ELSE EmptyDict
            ELSE args
    IN  IF decoded.t = "dict" THEN decoded ELSE EmptyDict

\* variant: the decoded value is passed on without the mapping check
CoerceArgsNoMappingCheck(args) ==
    IF args.t = "str"
    THEN LET r == json_loads(args.s) IN
         IF r.ok THEN r.v ELSE PyDict(<< <<"_raw", args>> >>)
    ELSE IF args.t = "dict" THEN args ELSE EmptyDict

\* the coercion of fn.get("arguments") to the mapping passed to call_tool
CoerceArgs(args) ==
    LET decoded ==
            IF args.t = "str"
            THEN LET r == json_loads(args.s) IN
                 IF r.ok THEN r.v ELSE PyDict(<< <<"_raw", args>> >>)
            ELSE args
    IN  IF decoded.t = "dict" THEN decoded ELSE EmptyDict


\* variant: the tool result replaces the last message instead of being appended
WithToolResultOverwrite(msgs, m) == [msgs EXCEPT ![Len(msgs)] = m]

\* messages.append({...tool result...})
WithToolResult(msgs, m) == Append(msgs, m)

\* variant: only the system message and the newest message are sent
ChatRequestNewestOnly(msgs, tools) ==
    [kind |-> "chat", messages |-> <<msgs[1], msgs[Len(msgs)]>>, tools |-> tools]

\* variant: the request carries no tool schemas
ChatRequestNoTools(msgs, tools) == [kind |-> "chat", messages |-> msgs, tools |-> <<>>]

\* the payload of one POST to /api/chat
ChatRequest(msgs, tools) == [kind |-> "chat", messages |-> msgs, tools |-> tools]

\* one await mcp_client.call_tool(tool_name, args)
Invocation(calls, idx) ==
    [kind |-> "tool", idx |-> idx, name |-> calls[idx + 1].function.name,
     args |-> CoerceArgs(calls[idx + 1].function.arguments)]


\* variant: the rest of the batch is issued at once (a gather)
InvocationsIssuedTogether(calls, idx) ==
    {Invocation(calls, j) : j \in idx..(Len(calls) - 1)}

\* the invocations issued when the loop reaches call idx of the batch
InvocationsIssued(calls, idx) == {Invocation(calls, idx)}


\* variant: a failed request is retried
AfterChatFailureRetry(msgs, tools) ==
    [pc |-> "await_chat", inflight |-> {ChatRequest(msgs, tools)}]

\* how a failed ollama_chat leaves main(): the exception is re-raised and
\* nothing in main() catches it
AfterChatFailure(msgs, tools) == [pc |-> "crashed", inflight |-> {}]

\* variant: a failed invocation is retried
AfterToolFailureRetry(calls, idx) ==
    [pc |-> "await_tool", inflight |-> InvocationsIssued(calls, idx)]

\* variant: the exception of a failed invocation is swallowed and the loop
\* keeps waiting for the call
AfterToolFailureSwallowed(calls, idx) == [pc |-> "await_tool", inflight |-> {}]

\* how a failed call_tool leaves main(): nothing catches the exception
AfterToolFailure(calls, idx) == [pc |-> "crashed", inflight |-> {}]

\* variant: a failed discovery is swallowed and the session starts without tools
AfterDiscoveryFailureSwallowed == [pc |-> "await_input", messages |-> <<SystemMessage>>]

\* how a failed list_tools leaves main(): nothing catches the exception, and
\* the conversation has not been created yet
AfterDiscoveryFailure == [pc |-> "crashed", messages |-> <<>>]

\* variant: input is read whenever a line is typed, also while a turn is under way
AcceptsInputAnytime(p) == p \in {"await_input", "await_chat", "await_tool"}

\* where main() calls input(): only at the top of the while loop
AcceptsInput(p) == p = "await_input"

\* variant: reaching the limit ends the session
AfterLoopLimitExit == [pc |-> "exited", line |-> LimitNotice]

\* the else branch of the for loop: the notice is printed and the while loop
\* goes on to the next input()
AfterLoopLimit == [pc |-> "await_input", line |-> LimitNotice]

Crashed(e) ==
    /\ pc' = "crashed"
    /\ error' = e
    /\ inflight' = {}
    /\ elapsed' = 0

\* The loop from the point where call number next (0-based) of the batch is
\* due, with msgs the conversation and out the lines printed so far: the next
\* invocation, the next request, or the for-else branch.
Advance(msgs, calls, next, out) ==
    /\ messages' = msgs
    /\ elapsed' = 0
    /\ error' = error
    /\ IF next < Len(calls)
       THEN /\ pc' = "await_tool"
            /\ tc_idx' = next
            /\ inflight' = {c \in inflight : c.kind = "tool" /\ c.idx >= next}
                           \cup InvocationsIssued(calls, next)
            /\ tools_invoked' = tools_invoked + 1
            /\ stdout' = out
            /\ UNCHANGED <<loop_idx, turn_requests, requests_sent>>
       ELSE IF loop_idx + 1 < LoopLimit
       THEN /\ pc' = "await_chat"
            /\ loop_idx' = loop_idx + 1
            /\ inflight' = {ChatRequest(msgs, ollama_tools)}
            /\ turn_requests' = turn_requests + 1
            /\ requests_sent' = requests_sent + 1
            /\ stdout' = out
            /\ UNCHANGED <<tc_idx, tools_invoked>>
       ELSE /\ pc' = AfterLoopLimit.pc
            /\ stdout' = Append(out, AfterLoopLimit.line)
            /\ inflight' = {}
            /\ UNCHANGED <<loop_idx, tc_idx, turn_requests, requests_sent, tools_invoked>>

----------------------------------------------------------------------------
(* The state machine *)

\* resp before the first response, and unit in a session
NoResponse == [message |-> [role |-> Absent, content |-> Absent, tool_calls |-> Absent]]
NoUnit == [fn |-> "none"]

Init ==
    /\ pc = "discover"
    /\ endpoint \in Endpoints
    /\ ollama_tools = <<>>
    /\ messages = <<>>
    /\ user_text = ""
    /\ loop_idx = 0
    /\ tool_calls = <<>>
    /\ tc_idx = 0
    /\ inflight = {}
    /\ elapsed = 0
    /\ stdout = <<>>
    /\ error = "none"
    /\ turns = 0
    /\ turn_requests = 0
    /\ requests_sent = 0
    /\ tools_invoked = 0
    /\ discoveries = 0
    /\ turn_responses = <<>>
    /\ batch_base = 0
    /\ batch_results = <<>>
    /\ resp = NoResponse
    /\ unit = NoUnit

RECURSIVE JoinNames(_)
JoinNames(names) ==
    IF names = <<>> THEN ""
    ELSE IF Len(names) = 1 THEN names[1]
    ELSE names[1] \o ", " \o JoinNames(Tail(names))

\* list_tools() answers; the schemas are translated and the conversation is
\* created with the system message
Discover ==
    /\ pc = "discover"
    /\ \E listing \in ToolListings :
         LET schemas == [i \in 1..Len(listing) |-> _tool_to_ollama_schema(listing[i])]
             names == [i \in 1..Len(listing) |->
                          PyStrOf(DictGet(DictGet(schemas[i].v, "function"), "name"))]
         IN  /\ discoveries' = discoveries + 1
             /\ IF \E i \in 1..Len(listing) : schemas[i].raised
                THEN /\ Crashed("translate")
                     /\ UNCHANGED <<ollama_tools, messages, stdout>>
                ELSE /\ ollama_tools' = [i \in 1..Len(listing) |-> schemas[i].v]
                     /\ messages' = <<SystemMessage>>
                     /\ stdout' = <<"Connected. Tools available: " \o JoinNames(names)>>
                     /\ pc' = "await_input"
                     /\ UNCHANGED <<error, inflight, elapsed>>
    /\ UNCHANGED <<unit, resp, endpoint, user_text, loop_idx, tool_calls, tc_idx, turns,
                   turn_requests, requests_sent, tools_invoked, turn_responses,
                   batch_base, batch_results>>

\* list_tools() (or the connection to the server) fails
DiscoverFails ==
    /\ pc = "discover"
    /\ discoveries' = discoveries + 1
    /\ LET after == AfterDiscoveryFailure IN
       /\ pc' = after.pc
       /\ messages' = after.messages
    /\ error' = "discovery"
    /\ inflight' = {}
    /\ elapsed' = 0
    /\ UNCHANGED <<unit, resp, endpoint, ollama_tools, user_text, loop_idx, tool_calls,
                   tc_idx, stdout, turns, turn_requests, requests_sent, tools_invoked,
                   turn_responses, batch_base, batch_results>>

\* input("\nYou> ") returns a line: exit, blank, or a user turn up to its
\* first request
ReadInput ==
    /\ AcceptsInput(pc)
    /\ \E line \in InputLines :
         LET text == Strip(line) IN
         /\ user_text' = text
         /\ IF IsSentinel(text)
            THEN /\ pc' = "exited"
                 /\ UNCHANGED <<messages, loop_idx, inflight, turns, turn_requests,
                                requests_sent, turn_responses>>
            ELSE IF IsBlank(text)
            THEN UNCHANGED <<pc, messages, loop_idx, inflight, turns, turn_requests,
                             requests_sent, turn_responses>>
            ELSE /\ turns < MaxTurns
                 /\ turns' = turns + 1
                 /\ messages' = Append(messages, UserMessage(text))
                 /\ loop_idx' = 0
                 /\ pc' = "await_chat"
                 /\ inflight' = {ChatRequest(messages', ollama_tools)}
                 /\ turn_requests' = 1
                 /\ requests_sent' = requests_sent + 1
                 /\ turn_responses' = <<>>
    /\ UNCHANGED <<unit, resp, endpoint, ollama_tools, tool_calls, tc_idx, elapsed, stdout, error,
                   tools_invoked, discoveries, batch_base, batch_results>>

\* the outstanding call takes longer
Wait ==
    /\ pc \in {"await_chat", "await_tool"}
    /\ elapsed < MaxLatency
    /\ elapsed' = elapsed + 1
    /\ UNCHANGED <<unit, resp, pc, endpoint, ollama_tools, messages, user_text, loop_idx,
                   tool_calls, tc_idx, inflight, stdout, error, turns, turn_requests,
                   requests_sent, tools_invoked, discoveries, turn_responses,
                   batch_base, batch_results>>

\* ollama_chat returns a response: the rest of the iteration up to the next await
ChatReturns ==
    /\ pc = "await_chat"
    /\ \E r \in {endpoint.tool_response, endpoint.final_response} :
         LET msg == r.message
             role == RoleOf(msg)
             content == ContentOf(msg)
             calls == ToolCallsOf(msg)
             msgs == WithAssistantText(messages, role, content)
         IN  /\ resp' = r
             /\ tool_calls' = calls
             /\ turn_responses' = Append(turn_responses, calls # <<>>)
             /\ IF TurnDone(calls)
                THEN /\ messages' = msgs
                     /\ stdout' = Append(stdout, FinalLine(content))
                     /\ pc' = "await_input"
                     /\ inflight' = {}
                     /\ elapsed' = 0
                     /\ UNCHANGED <<loop_idx, tc_idx, error, turn_requests,
                                    requests_sent, tools_invoked, batch_base,
                                    batch_results>>
                ELSE /\ batch_base' = Len(msgs)
                     /\ batch_results' = <<>>
                     /\ Advance(msgs, calls, 0, stdout \o PrintedWithToolCalls(content))
    /\ UNCHANGED <<unit, endpoint, ollama_tools, user_text, turns, discoveries>>

\* the POST fails or the status is not a success: ollama_chat logs and re-raises
ChatFails ==
    /\ pc = "await_chat"
    /\ LET after == AfterChatFailure(messages, ollama_tools) IN
       /\ pc' = after.pc
       /\ inflight' = after.inflight
       /\ requests_sent' = requests_sent + Cardinality(after.inflight)
       /\ turn_requests' = turn_requests + Cardinality(after.inflight)
    /\ error' = "transport"
    /\ elapsed' = 0
    /\ UNCHANGED <<unit, resp, endpoint, ollama_tools, messages, user_text, loop_idx, tool_calls,
                   tc_idx, stdout, turns, tools_invoked, discoveries, turn_responses,
                   batch_base, batch_results>>

\* call_tool returns: the result is normalised and appended, then the loop goes on
ToolReturns ==
    /\ pc = "await_tool"
    /\ \E call \in {c \in inflight : c.kind = "tool"} :
         LET result == ToolServer(call.name, call.args)
             tool_text == _result_to_text(result)
             tc == tool_calls[tc_idx + 1]
         IN  IF tool_text.raised
             THEN /\ Crashed("normalize")
                  /\ UNCHANGED <<messages, loop_idx, tc_idx, stdout, turn_requests,
                                 requests_sent, tools_invoked, batch_results>>
             ELSE /\ batch_results' = Append(batch_results, [idx |-> call.idx, result |-> result])
                  /\ Advance(WithToolResult(messages,
                                            ToolMessage(tc, tc.function.name, tool_text.text)),
                             tool_calls, tc_idx + 1, stdout)
    /\ UNCHANGED <<unit, resp, endpoint, ollama_tools, user_text, tool_calls, turns, discoveries,
                   turn_responses, batch_base>>

\* call_tool raises: nothing in main() catches it
ToolRaises ==
    /\ pc = "await_tool"
    /\ LET after == AfterToolFailure(tool_calls, tc_idx) IN
       /\ pc' = after.pc
       /\ inflight' = after.inflight
       /\ tools_invoked' = tools_invoked + Cardinality(after.inflight)
    /\ error' = "tool"
    /\ elapsed' = 0
    /\ UNCHANGED <<unit, resp, endpoint, ollama_tools, messages, user_text, loop_idx,
                   tool_calls, tc_idx, stdout, turns, turn_requests, requests_sent,
                   discoveries, turn_responses, batch_base, batch_results>>

Next ==
    \/ Discover
    \/ DiscoverFails
    \/ ReadInput
    \/ Wait
    \/ ChatReturns
    \/ ChatFails
    \/ ToolReturns
    \/ ToolRaises

Spec == Init /\ [][Next]_vars

\* The session when every awaited call comes back: ollama_chat returns or
\* raises (the POST has a timeout), and call_tool returns or raises.
SpecLive ==
    /\ Init
    /\ [][Next]_vars
    /\ WF_vars(ChatFails \/ ChatReturns)
    /\ WF_vars(ToolRaises \/ ToolReturns)

----------------------------------------------------------------------------
(* The two helpers applied on their own to one input *)

\* the main() variables of a state in which only a helper runs
NoSession ==
    /\ pc = "unit"
    /\ endpoint = [tool_response |-> NoResponse, final_response |-> NoResponse]
    /\ ollama_tools = <<>>
    /\ messages = <<>>
    /\ user_text = ""
    /\ loop_idx = 0
    /\ tool_calls = <<>>
    /\ tc_idx = 0
    /\ inflight = {}
    /\ elapsed = 0
    /\ stdout = <<>>
    /\ error = "none"
    /\ turns = 0
    /\ turn_requests = 0
    /\ requests_sent = 0
    /\ tools_invoked = 0
    /\ discoveries = 0
    /\ turn_responses = <<>>
    /\ batch_base = 0
    /\ batch_results = <<>>
    /\ resp = NoResponse

\* a call of a helper that has not returned yet
Pending(fn, input) ==
    [fn |-> fn, input |-> input, done |-> FALSE, raised |-> FALSE, out |-> PyNone]

\* values of a result's data attribute
DataSamples ==
    {Absent, PyNone, PyStr("ok"), PyStr(""), PyInt(0), PyBool(FALSE), EmptyDict,
     PyList(<<>>)}

\* values of a content part's text attribute
TextSamples == {Absent, PyNone, PyStr("a"), PyStr(""), PyInt(5), PyList(<<>>)}

PartSamples == {ContentPart(text, "Part()") : text \in TextSamples}

\* values of a result's content attribute
ContentSamples ==
    {Absent, PyNone, PyList(<<>>), PyStr("text"), EmptyDict, PyList(<<PyStr("raw")>>)}
    \cup {PyList(<<part>>) : part \in PartSamples}
    \cup {PyList(<<first, second>>) : first \in PartSamples, second \in PartSamples}

\* what call_tool may hand to _result_to_text
ResultSamples ==
    {PyNone, PyStr("plain"), PyInt(3), EmptyDict}
    \cup {ToolResult(data, content, "CallToolResult()") :
             data \in DataSamples, content \in ContentSamples}

InitNormalize ==
    /\ NoSession
    /\ unit \in {Pending("_result_to_text", result) : result \in ResultSamples}

\* text = _result_to_text(result)
Normalize ==
    /\ pc = "unit"
    /\ unit.fn = "_result_to_text"
    /\ ~unit.done
    /\ LET r == _result_to_text(unit.input) IN
       unit' = [unit EXCEPT !.done = TRUE, !.raised = r.raised, !.out = PyStr(r.text)]
    /\ UNCHANGED <<pc, endpoint, ollama_tools, messages, user_text, loop_idx, tool_calls,
                   tc_idx, inflight, elapsed, stdout, error, turns, turn_requests,
                   requests_sent, tools_invoked, discoveries, turn_responses, batch_base,
                   batch_results, resp>>

SpecNormalize == InitNormalize /\ [][Normalize]_vars

\* the entry of a mapping-shaped descriptor for one key, none when v is missing
Entry(k, v) == IF v.t = "absent" THEN <<>> ELSE << <<k, v>> >>

\* a tool descriptor in either representation; a missing attribute or key is Absent
Descriptor(shape, name, description, inputSchema, input_schema) ==
    IF shape = "obj"
    THEN [t |-> "obj", name |-> name, description |-> description,
          inputSchema |-> inputSchema, input_schema |-> input_schema, repr |-> "Tool()"]
    ELSE PyDict(Entry("name", name) \o Entry("description", description)
                \o Entry("inputSchema", inputSchema) \o Entry("input_schema", input_schema))

\* what list_tools may hand to _tool_to_ollama_schema
DescriptorSamples ==
    {Descriptor(shape, name, description, inputSchema, input_schema) :
        shape \in {"obj", "dict"},
        name \in {PyStr("t"), PyStr("get_alerts")},
        description \in {Absent, PyNone, PyStr(""), PyStr("d")},
        inputSchema \in {Absent, PyNone, EmptyDict, ObjectSchema("x"), PyList(<<PyInt(1)>>)},
        input_schema \in {Absent, ObjectSchema("y")}}

InitTranslate ==
    /\ NoSession
    /\ unit \in {Pending("_tool_to_ollama_schema", tool) : tool \in DescriptorSamples}

\* schema = _tool_to_ollama_schema(tool)
Translate ==
    /\ pc = "unit"
    /\ unit.fn = "_tool_to_ollama_schema"
    /\ ~unit.done
    /\ LET r == _tool_to_ollama_schema(unit.input) IN
       unit' = [unit EXCEPT !.done = TRUE, !.raised = r.raised, !.out = r.v]
    /\ UNCHANGED <<pc, endpoint, ollama_tools, messages, user_text, loop_idx, tool_calls,
                   tc_idx, inflight, elapsed, stdout, error, turns, turn_requests,
                   requests_sent, tools_invoked, discoveries, turn_responses, batch_base,
                   batch_results, resp>>

SpecTranslate == InitTranslate /\ [][Translate]_vars

----------------------------------------------------------------------------
(* Properties *)

Last(s) == s[Len(s)]

AllToolResponses == \A i \in 1..Len(turn_responses) : turn_responses[i]

TurnEnded == pc \in {"await_input", "exited"} /\ turns > 0

NoticePrinted == stdout # <<>> /\ Last(stdout) = LimitNotice

\* C1: a user turn issues at most ten Chat Transport requests, counted from
\* zero in every turn; a turn whose responses all carried a tool call ends
\* after exactly ten requests with the loop-limit notice, and the notice is
\* the last line printed only after ten responses that all carried tool calls.
C1_IterationCap ==
    /\ turn_requests <= 10
    /\ Len(turn_responses) <= turn_requests
    /\ (TurnEnded /\ turn_responses # <<>> /\ AllToolResponses)
          => (turn_requests = 10 /\ Len(turn_responses) = 10 /\ NoticePrinted)
    /\ (TurnEnded /\ NoticePrinted)
          => (turn_requests = 10 /\ Len(turn_responses) = 10 /\ AllToolResponses)
    /\ (turn_responses # <<>> /\ ~AllToolResponses) => ~NoticePrinted

\* the second turn of a session runs into the cap after the first one did
C1_Witness ==
    /\ pc = "await_input"
    /\ turns = 2
    /\ requests_sent = 20
    /\ turn_requests = 10
    /\ NoticePrinted

\* C2: a failed Chat Transport call ends only the turn: the session stays
\* alive and the loop is back awaiting user input.
C2_TransportFailureEndsOnlyTheTurn ==
    error = "transport" => pc = "await_input"

\* C3: once a Chat Transport call has failed, no request is outstanding and
\* no further request or tool invocation is issued.
C3_NothingAfterTransportFailure ==
    [][/\ error' = "transport" => (inflight' = {} /\ pc' \notin {"await_chat", "await_tool"})
       /\ error = "transport" =>
             (requests_sent' = requests_sent /\ tools_invoked' = tools_invoked)]_vars

\* the second request of a turn failed, after the tools of the first
\* response had run
C3_Witness ==
    /\ error = "transport"
    /\ turn_requests = 2
    /\ tools_invoked >= 1
    /\ loop_idx = 1
    /\ inflight = {}

\* a batch is being executed, or has just been completed
BatchVisible ==
    \/ pc = "await_tool"
    \/ pc = "await_chat" /\ turn_responses # <<>>
    \/ pc = "await_input" /\ NoticePrinted

\* C4: the tool-role messages of a batch are appended in the order of the
\* calls, one per returned invocation and nothing between them, the i-th
\* with the id and name of call i and the normalised result of the
\* invocation made for call i; a completed batch has one message per call.
C4_BatchOrder ==
    BatchVisible =>
       /\ Len(messages) = batch_base + Len(batch_results)
       /\ Len(batch_results) <= Len(tool_calls)
       /\ pc # "await_tool" => Len(batch_results) = Len(tool_calls)
       /\ \A i \in 1..Len(batch_results) :
             /\ batch_results[i].idx = i - 1
             /\ messages[batch_base + i] =
                   [role |-> "tool",
                    tool_call_id |-> tool_calls[i].id,
                    name |-> tool_calls[i].function.name,
                    content |-> _result_to_text(batch_results[i].result).text]

\* a batch of three calls with three different ids has been completed
C4_Witness ==
    /\ pc = "await_chat"
    /\ Len(tool_calls) = 3
    /\ Len(batch_results) = 3
    /\ Cardinality({tool_calls[i].id : i \in 1..3}) = 3
    /\ messages[batch_base + 3].tool_call_id = PyStr("c")

\* C5: at most one network call is outstanding; the invocation in flight is
\* the one for the current call, and the tool-role messages of all earlier
\* calls of the batch have been appended.
C5_Sequential ==
    /\ Cardinality(inflight) <= 1
    /\ pc = "await_chat" => \E c \in inflight : c.kind = "chat"
    /\ pc = "await_tool" => \E c \in inflight : c.kind = "tool"
    /\ pc \notin {"await_chat", "await_tool"} => inflight = {}
    /\ \A c \in inflight :
          c.kind = "tool" =>
             /\ c.idx = tc_idx
             /\ Len(batch_results) = c.idx
             /\ Len(messages) = batch_base + c.idx

\* the second invocation of a batch is outstanding
C5_Witness ==
    /\ pc = "await_tool"
    /\ tc_idx = 1
    /\ Cardinality(inflight) = 1
    /\ elapsed = 1

FinalContent == ContentOf(endpoint.final_response.message)

\* C6: a turn whose n-th response is the first without tool calls makes
\* exactly n requests, prints the final text (or the placeholder) and is
\* back awaiting input.
C6_RoundTrips ==
    LET n == Len(turn_responses) IN
    (n > 0 /\ ~turn_responses[n]) =>
       /\ pc \in {"await_input", "exited"}
       /\ turn_requests = n
       /\ n <= 10
       /\ \A i \in 1..(n - 1) : turn_responses[i]
       /\ inflight = {}
       /\ Last(stdout) = IF FinalContent # "" THEN "\nAssistant> " \o FinalContent
                         ELSE "\nAssistant> (no content)"

\* one tool call, then the answer: two round trips
C6_Witness ==
    /\ pc = "await_input"
    /\ turn_responses = <<TRUE, FALSE>>
    /\ turn_requests = 2
    /\ tools_invoked = 1
    /\ Last(stdout) = "\nAssistant> Today is January 26, 2026."

SentinelTexts == {"exit", "EXIT", "Exit", "quit", "QUIT", "Quit"}

\* C7: reading a line that is "exit" or "quit" in any letter case ends the
\* session: nothing is appended, no request or invocation is issued, and
\* nothing is read afterwards.
C7_SentinelEndsSession ==
    [][/\ (pc = "await_input" /\ user_text' \in SentinelTexts) =>
             /\ pc' = "exited"
             /\ messages' = messages
             /\ requests_sent' = requests_sent
             /\ tools_invoked' = tools_invoked
             /\ inflight' = {}
       /\ pc = "exited" => (pc' = "exited" /\ user_text' = user_text)]_vars

\* the session was ended by "EXIT" after a turn
C7_Witness ==
    /\ pc = "exited"
    /\ user_text = "EXIT"
    /\ turns = 1
    /\ Len(messages) > 2

\* C8: reading a blank line changes nothing but the line read: the
\* conversation is unchanged, no request is issued, the session stays alive
\* awaiting input.
C8_BlankIgnored ==
    [][(pc = "await_input" /\ user_text' = "") =>
          /\ pc' = "await_input"
          /\ messages' = messages
          /\ stdout' = stdout
          /\ inflight' = {}
          /\ turns' = turns
          /\ requests_sent' = requests_sent
          /\ tools_invoked' = tools_invoked]_vars

\* a blank line was read after a turn
C8_Witness ==
    /\ pc = "await_input"
    /\ user_text = ""
    /\ turns = 1
    /\ Len(messages) > 1

IsPrefix(s, u) == Len(s) <= Len(u) /\ SubSeq(u, 1, Len(s)) = s

\* C9: every step leaves the conversation a prefix of the new conversation,
\* and the system message stays first.
C9_AppendOnly ==
    [][/\ IsPrefix(messages, messages')
       /\ messages' # <<>> => messages'[1] = SystemMessage]_vars

\* a turn that follows a turn abandoned at the cap
C9_Witness ==
    /\ pc = "await_tool"
    /\ turns = 2
    /\ requests_sent > 10
    /\ \E i \in 1..Len(stdout) : stdout[i] = LimitNotice
    /\ Len(messages) > 12

\* strings that are JSON for a mapping, with the mapping
DecodedSamples ==
    { <<"{\"state\":\"CA\"}", PyDict(<< <<"state", PyStr("CA")>> >>)>>,
      <<"{}", EmptyDict>>,
      <<" { \"calendar_id\" : null , \"tags\" : [\"a\", true] } ",
        PyDict(<< <<"calendar_id", PyNone>>,
                  <<"tags", PyList(<<PyStr("a"), PyBool(TRUE)>>)>> >>)>> }

\* C10: the mapping passed to the tool: a mapping unchanged; a string that
\* is JSON for a mapping decoded; a string that is not well-formed JSON as
\* {_raw: string}; anything that is neither a string nor a mapping as {}.
C10_ArgumentCoercion ==
    \A c \in inflight :
       c.kind = "tool" =>
          LET arg == tool_calls[c.idx + 1].function.arguments IN
          /\ arg.t = "dict" => c.args = arg
          /\ arg.t \notin {"str", "dict"} => c.args = EmptyDict
          /\ (arg.t = "str" /\ arg.s \in MalformedStrings) =>
                c.args = PyDict(<< <<"_raw", PyStr(arg.s)>> >>)
          /\ \A d \in DecodedSamples : (arg.t = "str" /\ arg.s = d[1]) => c.args = d[2]
          /\ \A m \in SampleMappings :
                (arg.t = "str" /\ arg.s = json_dumps(m)) => c.args = m

\* the invocation for a call whose arguments are the string {bad
C10_Witness ==
    \E c \in inflight :
       /\ c.kind = "tool"
       /\ tool_calls[c.idx + 1].function.arguments = PyStr("{bad")
       /\ c.args = PyDict(<< <<"_raw", PyStr("{bad")>> >>)

\* C11 as the spec words it: whenever the string arguments do not decode, or
\* decode to something that is not a mapping, the tool is invoked with the
\* empty mapping.
C11_EmptyMappingOnAnyDecodeProblem ==
    \A c \in inflight :
       c.kind = "tool" =>
          LET arg == tool_calls[c.idx + 1].function.arguments IN
          /\ c.args.t = "dict"
          /\ arg.t = "str" =>
                LET r == json_loads(arg.s) IN
                (~r.ok \/ r.v.t # "dict") => c.args = EmptyDict

\* C11 as the code has it: the value passed to call_tool is always a mapping
\* and the invocation is issued; a string that decodes to a list, a number,
\* a string, null or a boolean gives the empty mapping; a string that does
\* not decode gives the one-entry mapping {_raw: string}, not the empty one.
C11_CoercionNeverFailsTheTurn ==
    /\ pc = "await_tool" =>
          \E c \in inflight : c.kind = "tool" /\ c.idx = tc_idx
    /\ \A c \in inflight :
          c.kind = "tool" =>
             LET arg == tool_calls[c.idx + 1].function.arguments IN
             /\ c.args.t = "dict"
             /\ arg.t = "str" =>
                   LET r == json_loads(arg.s) IN
                   /\ (r.ok /\ r.v.t # "dict") => c.args = EmptyDict
                   /\ ~r.ok => /\ c.args = PyDict(<< <<"_raw", arg>> >>)
                               /\ c.args # EmptyDict

\* an invocation under way for a call whose arguments are the JSON list [1, 2]
C11_Witness ==
    \E c \in inflight :
       /\ c.kind = "tool"
       /\ tool_calls[c.idx + 1].function.arguments = PyStr("[1, 2]")
       /\ c.args = EmptyDict
       /\ pc = "await_tool"

\* C12: a tool invocation that raises ends the turn as a transport failure
\* does: the failed call is not issued again, no tool message is appended
\* for it, the calls after it in the batch are never invoked, and no further
\* chat request is sent.
C12_NothingAfterToolFailure ==
    [][ /\ (error # "tool" /\ error' = "tool") =>
              /\ pc = "await_tool"
              /\ pc' \notin {"await_tool", "await_chat"}
              /\ inflight' = {}
              /\ messages' = messages
              /\ Len(messages') = batch_base + tc_idx
              /\ Len(batch_results') = tc_idx
              /\ tools_invoked' = tools_invoked
              /\ requests_sent' = requests_sent
        /\ error = "tool" =>
              /\ inflight' = {}
              /\ messages' = messages
              /\ tools_invoked' = tools_invoked
              /\ requests_sent' = requests_sent
              /\ turn_requests' = turn_requests
      ]_vars

\* the second call of a batch of three has raised: one tool message, for the
\* first call, and the third call never invoked
C12_Witness ==
    /\ error = "tool"
    /\ tc_idx = 1
    /\ Len(tool_calls) = 3
    /\ Len(messages) = batch_base + 1
    /\ Last(messages).role = "tool"
    /\ inflight = {}

\* C13: a response whose tool_calls is absent, null or an empty list
\* completes the turn in that iteration: the text is printed when it is not
\* empty, and otherwise the placeholder is printed and no message is
\* appended; no tool is invoked and no further request is sent.
C13_NoToolCallsCompletesTheTurn ==
    [][ ( /\ pc = "await_chat"
          /\ Len(turn_responses') = Len(turn_responses) + 1
          /\ resp'.message.tool_calls \in {Absent, PyNone, PyList(<<>>)} ) =>
            LET c == resp'.message.content IN
            /\ pc' = "await_input"
            /\ inflight' = {}
            /\ tools_invoked' = tools_invoked
            /\ requests_sent' = requests_sent
            /\ turn_requests' = turn_requests
            /\ Len(stdout') = Len(stdout) + 1
            /\ IF c.t = "str" /\ c.s # ""
               THEN /\ Last(stdout') = AssistantLine(c.s)
                    /\ Len(messages') = Len(messages) + 1
                    /\ SubSeq(messages', 1, Len(messages)) = messages
                    /\ Last(messages').content = c.s
               ELSE /\ Last(stdout') = Placeholder
                    /\ messages' = messages
      ]_vars

\* a turn completed by a response with null text and null tool_calls: the
\* placeholder is the last line printed and no assistant message was added
C13_Witness ==
    /\ pc = "await_input"
    /\ resp = ChatResponse(PyStr("assistant"), PyNone, PyNone)
    /\ stdout # <<>>
    /\ Last(stdout) = Placeholder
    /\ Last(messages).role \in {"user", "tool"}
    /\ inflight = {}

\* C14: _result_to_text is total: for a result with data, a result with a
\* list of content parts (with or without text, of whatever type), a result
\* of any other shape and an absent result, it returns a string and never
\* raises.
C14_NormalizerTotal ==
    (unit.fn = "_result_to_text" /\ unit.done) =>
        /\ ~unit.raised
        /\ unit.out.t = "str"

\* C15: _tool_to_ollama_schema accepts both descriptor representations
\* without failing, and when the descriptor has no input schema it returns
\* a function object whose parameters are {type: object, properties: {}}.
C15_TranslatorAcceptsBothShapes ==
    (unit.fn = "_tool_to_ollama_schema" /\ unit.done) =>
        LET tool == unit.input
            missing(a) ==
                IF tool.t = "obj" THEN GetAttr(tool, a) = PyNone ELSE ~HasKey(tool, a)
        IN  /\ ~unit.raised
            /\ DictGet(unit.out, "type") = PyStr("function")
            /\ (missing("inputSchema") /\ missing("input_schema")) =>
                  DictGet(DictGet(unit.out, "function"), "parameters") = DefaultSchema

\* C16: when discovery fails the session is over before any turn: no input
\* is read, no message is appended, no chat request is sent and no tool is
\* invoked, then or later.
C16_DiscoveryFailureAbortsSession ==
    error = "discovery" =>
        /\ pc = "crashed"
        /\ messages = <<>>
        /\ turns = 0
        /\ user_text = ""
        /\ stdout = <<>>
        /\ inflight = {}
        /\ requests_sent = 0
        /\ tools_invoked = 0
        /\ ollama_tools = <<>>

\* list_tools has raised
C16_Witness ==
    /\ error = "discovery"
    /\ pc = "crashed"
    /\ discoveries = 1
    /\ turns = 0

\* C17: when the last response carried both non-empty text and tool calls,
\* its text is in the conversation from before the first invocation of the
\* batch, directly in front of the batch's tool messages, and it stays there
\* whether the batch is under way, a later invocation or request has failed,
\* the cap was reached or a later turn has begun.
C17_TextBeforeToolResults ==
    ( /\ turn_responses # <<>>
      /\ Truthy(resp.message.tool_calls)
      /\ Truthy(resp.message.content) ) =>
        /\ batch_base \in 2..Len(messages)
        /\ messages[batch_base].content = resp.message.content.s
        /\ messages[batch_base].role = RoleOf(resp.message)
        /\ Len(messages) >= batch_base + Len(batch_results)
        /\ \A i \in 1..Len(batch_results) : messages[batch_base + i].role = "tool"
        /\ \A i \in 1..batch_base : messages[i].role = "tool" => i < batch_base
        /\ \A c \in inflight : c.kind = "tool" => Len(messages) = batch_base + c.idx

\* the second invocation of a batch has raised: the text that came with the
\* batch is still in the conversation, followed by the first tool message
C17_Witness ==
    /\ error = "tool"
    /\ tc_idx = 1
    /\ resp.message.content = PyStr("Let me check.")
    /\ messages[batch_base].content = "Let me check."
    /\ Len(messages) = batch_base + 1
    /\ messages[batch_base + 1].role = "tool"

\* C18: a message appended from a response's text has role assistant
\* whatever role the response carries, so the conversation holds exactly the
\* one system message it starts with and one user message per user input.
C18_ModelTextIsAssistant ==
    /\ \A i \in 2..Len(messages) : messages[i].role \in {"user", "assistant", "tool"}
    /\ Cardinality({i \in 1..Len(messages) : messages[i].role = "system"}) <= 1
    /\ Cardinality({i \in 1..Len(messages) : messages[i].role = "user"}) = turns
    /\ ( /\ turn_responses # <<>>
         /\ Truthy(resp.message.tool_calls)
         /\ Truthy(resp.message.content) ) => messages[batch_base].role = "assistant"

\* C19: a chat request carries the whole conversation as it stands when the
\* request is made: the system message first, then every message of the
\* earlier turns and of the current one, in append order, none left out.
C19_RequestCarriesFullConversation ==
    \A c \in inflight :
       c.kind = "chat" =>
          /\ c.messages = messages
          /\ c.messages[1] = SystemMessage
          /\ Len(c.messages) >= 2
          /\ Cardinality({i \in 1..Len(c.messages) : c.messages[i] = UserMessage(user_text)})
                >= 1
          /\ Cardinality({i \in 1..Len(c.messages) : c.messages[i].role = "tool"})
                = tools_invoked

\* a request of the second turn, made after a tool batch, when the first
\* turn was abandoned at the cap: it carries that turn's messages too
C19_Witness ==
    /\ pc = "await_chat"
    /\ turns = 2
    /\ NoticePrinted
    /\ \E c \in inflight :
          /\ c.kind = "chat"
          /\ Len(c.messages) > LoopLimit + 2
          /\ Last(c.messages).role = "tool"
          /\ c.messages = messages

\* C20: discovery happens once, before the first input is read; from then
\* on no step changes the translated tool list, discovers again, or sends a
\* request with another list than that one.
C20_DiscoveryOnceToolsFixed ==
    [][ /\ discoveries' <= 1
        /\ discoveries' > discoveries => (pc = "discover" /\ turns' = 0 /\ messages = <<>>)
        /\ pc # "discover" =>
              /\ discoveries = 1
              /\ ollama_tools' = ollama_tools
              /\ discoveries' = discoveries
        /\ \A c \in inflight' : c.kind = "chat" => c.tools = ollama_tools
      ]_vars

\* a request of the second turn, carrying the four schemas translated at startup
C20_Witness ==
    /\ pc = "await_chat"
    /\ turns = 2
    /\ discoveries = 1
    /\ Len(ollama_tools) = 4
    /\ \E c \in inflight : c.kind = "chat" /\ c.tools = ollama_tools

\* C21: one user turn at a time: input is read, and a user message appended,
\* only when no request or invocation is under way; from the user message to
\* the end of its turn every step leaves the turn count and the input text
\* alone and appends only the model's text or a tool message, and every
\* request made in between carries that user message as its last user input.
C21_OneTurnAtATime ==
    [][ /\ (turns' # turns \/ user_text' # user_text) =>
              /\ pc = "await_input"
              /\ inflight = {}
        /\ turns' # turns =>
              /\ turns' = turns + 1
              /\ messages' = Append(messages, UserMessage(user_text'))
              /\ inflight' = {ChatRequest(messages', ollama_tools)}
        /\ pc \in {"await_chat", "await_tool"} =>
              /\ turns' = turns
              /\ user_text' = user_text
              /\ (pc = "await_tool" /\ messages' # messages) =>
                    /\ Len(messages') = Len(messages) + 1
                    /\ Last(messages').role = "tool"
              /\ (pc = "await_chat" /\ messages' # messages) =>
                    /\ Len(messages') = Len(messages) + 1
                    /\ Last(messages').content = ContentOf(resp'.message)
              /\ \A c \in inflight' :
                    c.kind = "chat" =>
                       \E i \in 1..Len(c.messages) :
                          /\ c.messages[i] = UserMessage(user_text)
                          /\ \A j \in (i + 1)..Len(c.messages) :
                                c.messages[j].content # user_text
      ]_vars

\* the second turn is under way, a tool batch half done, after a first turn
\* that made several requests
C21_Witness ==
    /\ pc = "await_tool"
    /\ turns = 2
    /\ tc_idx >= 1
    /\ requests_sent >= 3
    /\ Cardinality({i \in 1..Len(messages) : messages[i] = UserMessage(user_text)}) = 2

\* the string a content part contributes: its text, or its string form when
\* it has none
PartText(part) ==
    IF part.t = "part" /\ part.text.t \notin {"absent", "none"}
    THEN PyStrOf(part.text)
    ELSE PyStrOf(part)

\* C22: the resolution order of _result_to_text, first match wins: an absent
\* result gives ""; a result with data gives str(data) even when it has
\* content parts too; a result with a non-empty list of content parts gives
\* the parts' texts in list order joined by newlines, a part without text
\* giving its string form; anything else, an empty content list included,
\* gives the string form of the whole result.
C22_ResolutionOrder ==
    (unit.fn = "_result_to_text" /\ unit.done) =>
        LET result == unit.input
            has(a) == result.t = "result" /\ GetAttr(result, a).t # "none"
            expected ==
                IF result.t = "none" THEN ""
                ELSE IF has("data") THEN PyStrOf(result.data)
                ELSE IF has("content") /\ result.content.t = "list"
                        /\ result.content.elems # <<>>
                THEN JoinLines([i \in 1..Len(result.content.elems) |->
                                   PartText(result.content.elems[i])])
                ELSE PyStrOf(result)
        IN  /\ ~unit.raised
            /\ unit.out = PyStr(expected)

\* C23: the input schema of a descriptor is passed through unchanged: when
\* the translator returns, the parameters of its result are the descriptor's
\* inputSchema whenever that is present, the empty mapping {} or a schema of
\* unexpected shape included, and the default {type: object, properties: {}}
\* only when the descriptor has no input schema.
C23_SchemaPassedThrough ==
    (unit.fn = "_tool_to_ollama_schema" /\ unit.done /\ ~unit.raised) =>
        LET tool == unit.input
            field(a) == IF tool.t = "obj" THEN GetAttr(tool, a)
                        ELSE IF HasKey(tool, a) THEN DictGet(tool, a) ELSE PyNone
            parameters == DictGet(DictGet(unit.out, "function"), "parameters")
        IN  /\ field("inputSchema") # PyNone => parameters = field("inputSchema")
            /\ (field("inputSchema") = PyNone /\ field("input_schema") # PyNone) =>
                  parameters = field("input_schema")
            /\ (field("inputSchema") = PyNone /\ field("input_schema") = PyNone) =>
                  parameters = DefaultSchema

\* C24: the notice of the loop limit is printed only after every tool call
\* of the tenth response has been invoked and its tool message appended, and
\* no request follows in that turn; the loop then awaits input with the
\* session alive, and the first request of the next turn carries those tool
\* messages followed by the new user message.
C24_CapKeepsLastBatch ==
    [][ /\ (Len(stdout') = Len(stdout) + 1 /\ Last(stdout') = LimitNotice) =>
              /\ pc = "await_tool"
              /\ Len(turn_responses) = LoopLimit
              /\ tc_idx = Len(tool_calls) - 1
              /\ Len(messages') = batch_base + Len(tool_calls)
              /\ \A i \in 1..Len(tool_calls) : messages'[batch_base + i].role = "tool"
              /\ Len(batch_results') = Len(tool_calls)
              /\ requests_sent' = requests_sent
              /\ inflight' = {}
              /\ pc' = "await_input"
              /\ error' = "none"
        /\ (NoticePrinted /\ turns' = turns + 1) =>
              /\ pc = "await_input"
              /\ Len(messages) = batch_base + Len(tool_calls)
              /\ Last(messages).role = "tool"
              /\ messages' = Append(messages, UserMessage(user_text'))
              /\ inflight' = {ChatRequest(messages', ollama_tools)}
              /\ \A c \in inflight' :
                    /\ Len(c.messages) = batch_base + Len(tool_calls) + 1
                    /\ \A i \in 1..Len(tool_calls) : c.messages[batch_base + i].role = "tool"
                    /\ Last(c.messages) = UserMessage(user_text')
      ]_vars

\* the first request of the turn that follows a turn abandoned at the limit
C24_Witness ==
    /\ turns = 2
    /\ pc = "await_chat"
    /\ turn_requests = 1
    /\ NoticePrinted
    /\ tools_invoked >= LoopLimit
    /\ Len(messages) = batch_base + Len(tool_calls) + 1
    /\ messages[Len(messages) - 1].role = "tool"
    /\ \E c \in inflight : c.kind = "chat" /\ Last(c.messages) = UserMessage(user_text)

\* a turn is under way: a request or an invocation is awaited
TurnUnderWay == pc \in {"await_chat", "await_tool"}

\* C25: when every request and every invocation comes back, a turn that is
\* under way ends: with a response without tool calls, at the loop limit, or
\* with a failure that leaves main(); the request/tool-call cycle is never
\* run for ever.
C25_TurnEventuallyEnds ==
    TurnUnderWay ~>
        \/ /\ pc = "await_input"
           /\ turn_responses # <<>>
           /\ \/ ~Last(turn_responses)
              \/ AllToolResponses /\ Len(turn_responses) = LoopLimit /\ NoticePrinted
        \/ /\ pc = "crashed"
           /\ error \in {"transport", "tool", "normalize"}

\* a turn that ended with a response without tool calls after two rounds of
\* tool calls
C25_Witness ==
    /\ pc = "await_input"
    /\ Len(turn_responses) = 3
    /\ ~Last(turn_responses)
    /\ turn_responses[1] /\ turn_responses[2]
    /\ error = "none"

\* C26: a turn that ends without failure prints exactly one assistant line:
\* the final text or the placeholder when its last response carried no tool
\* calls, the notice when the loop limit was reached; the text of a response
\* that carries tool calls is stored but not printed.
C26_OneAssistantLinePerTurn ==
    error = "none" =>
        /\ pc \in {"await_input", "exited"} => Len(stdout) = 1 + turns
        /\ TurnUnderWay => Len(stdout) = turns
        /\ (pc = "await_input" /\ turns > 0) =>
              LET c == resp.message.content
                  text == IF c.t = "str" THEN c.s ELSE ""
              IN  IF Truthy(resp.message.tool_calls)
                  THEN /\ Last(stdout) = LimitNotice
                       /\ Len(turn_responses) = LoopLimit
                       /\ text # "" => messages[batch_base].content = text
                  ELSE Last(stdout) = IF text # "" THEN AssistantLine(text) ELSE Placeholder
        /\ \A i \in 2..Len(stdout) :
              \/ stdout[i] \in {LimitNotice, Placeholder}
              \/ /\ FinalContent # ""
                 /\ stdout[i] = AssistantLine(FinalContent)

\* two turns have ended, the first at the loop limit with text in every
\* response, the second with a final text: two assistant lines were printed
C26_Witness ==
    /\ pc = "await_input"
    /\ turns = 2
    /\ error = "none"
    /\ Len(stdout) = 3
    /\ stdout[2] = LimitNotice
    /\ stdout[3] = AssistantLine("Done.")
    /\ \E i \in 1..Len(messages) : messages[i].content = "Working on it."

====
